---- MODULE Spec2Model ----
(***************************************************************************)
(* Model of model_download.py: a model file is validated, a metadata text  *)
(* file is written next to it, both are bundled by an external zip         *)
(* command, and the archive is handed to the notebook's download function  *)
(* (or the transfer is simulated).                                         *)
(*                                                                         *)
(* The file system, the outcome of open()/write(), the outcome of the zip  *)
(* child process and the outcome of files.download() are the environment:  *)
(* Init draws the file system the process starts in, the actions draw the  *)
(* outcomes.  Printed lines are modelled without their leading emoji.      *)
(* Paths are shell-safe words (no blanks, no quotes).                      *)
(***************************************************************************)
EXTENDS Integers, Sequences, FiniteSets, TLC

VARIABLES
    entry,          \* the function the interpreter was asked to run
    model_path,     \* argument model_path  (main: line 128)
    zip_name,       \* argument zip_name / zip_path (main: line 129)
    IN_COLAB,       \* module flag set once at import (lines 20-28)
    fs0,            \* the file system when the process started
    fs,             \* the file system now
    pc,             \* position of the process
    out,            \* lines printed so far
    valid_ret,      \* return value of validate_model_file
    metadata_path,  \* local of create_zip_archive (line 84)
    zip_command,    \* local of create_zip_archive (lines 87-89)
    exit_code,      \* local of create_zip_archive (line 92): <<>> until os.system returned
    zip_ret,        \* return value of create_zip_archive
    dl_ret,         \* return value of download_model_zip
    raised,         \* uncaught exception, if any
    exit_status     \* <<>> while running, <<n>> once the process exited with n

vars == <<entry, model_path, zip_name, IN_COLAB, fs0, fs, pc, out, valid_ret,
          metadata_path, zip_command, exit_code, zip_ret, dl_ret, raised,
          exit_status>>

-----------------------------------------------------------------------------
(* Bounds *)

\* largest model file, in whole MiB
MaxModelMB == 2

\* bytes per MB in get_file_size_mb: 1024 * 1024
BytesPerMB == 1048576

-----------------------------------------------------------------------------
(* Strings *)

\* Python's None, and the value of a return slot nothing has been returned to
None == "<None>"
Unset == "<unset>"
True == "True"
False == "False"

Char(s, i) == SubSeq(s, i, i)

\* str.rfind(c), 1-based; 0 when c does not occur
RECURSIVE RFindFrom(_, _, _)
RFindFrom(s, c, i) ==
    IF i = 0 THEN 0
    ELSE IF Char(s, i) = c THEN i
    ELSE RFindFrom(s, c, i - 1)

RFind(s, c) == RFindFrom(s, c, Len(s))

EndsWith(s, suffix) ==
    /\ Len(s) >= Len(suffix)
    /\ SubSeq(s, Len(s) - Len(suffix) + 1, Len(s)) = suffix

RECURSIVE ContainsFrom(_, _, _)
ContainsFrom(s, t, i) ==
    IF i + Len(t) - 1 > Len(s) THEN FALSE
    ELSE IF SubSeq(s, i, i + Len(t) - 1) = t THEN TRUE
    ELSE ContainsFrom(s, t, i + 1)

\* t in s
Contains(s, t) == ContainsFrom(s, t, 1)

Digit(d) == Char("0123456789", d + 1)

\* str(n) for n >= 0
RECURSIVE IntStr(_)
IntStr(n) == IF n < 10 THEN Digit(n) ELSE IntStr(n \div 10) \o Digit(n % 10)

\* os.path.basename: what follows the last "/"
\* faulty variant of Basename: the whole path
Basename_full(p) == p
Basename(p) == SubSeq(p, RFind(p, "/") + 1, Len(p))

\* the loop of genericpath._splitext that skips the leading dots of the file
\* name: TRUE when some character in [i, dot) is not a dot
RECURSIVE NonDotBefore(_, _, _)
NonDotBefore(p, i, dot) ==
    IF i >= dot THEN FALSE
    ELSE IF Char(p, i) # "." THEN TRUE
    ELSE NonDotBefore(p, i + 1, dot)

\* os.path.splitext(p)[0]
SplitextRoot(p) ==
    LET sepIndex == RFind(p, "/")
        dotIndex == RFind(p, ".")
    IN  IF dotIndex > sepIndex /\ NonDotBefore(p, sepIndex + 1, dotIndex)
        THEN SubSeq(p, 1, dotIndex - 1)
        ELSE p

\* line 64
MetadataPath(p) == SplitextRoot(p) \o "_info.txt"

\* f"{x:.2f}" for x = size_bytes / 2^20: the division is exact in binary
\* floating point, and the format rounds the exact value half to even
Hundredths(size_bytes) ==
    LET h == size_bytes * 100
        q == h \div BytesPerMB
        r == h % BytesPerMB
    IN  IF 2 * r > BytesPerMB \/ (2 * r = BytesPerMB /\ q % 2 = 1)
        THEN q + 1 ELSE q

Fixed2(size_bytes) ==
    LET q == Hundredths(size_bytes)
    IN  IntStr(q \div 100) \o "." \o Digit((q \div 10) % 10) \o Digit(q % 10)

\* shell word splitting of a command line (blanks only)
RECURSIVE WordsFrom(_, _, _)
WordsFrom(s, i, cur) ==
    IF i > Len(s) THEN (IF cur = "" THEN <<>> ELSE <<cur>>)
    ELSE IF Char(s, i) = " "
         THEN (IF cur = "" THEN <<>> ELSE <<cur>>) \o WordsFrom(s, i + 1, "")
         ELSE WordsFrom(s, i + 1, cur \o Char(s, i))

Words(s) == WordsFrom(s, 1, "")

\* "=" * 50
Rule == "=================================================="

-----------------------------------------------------------------------------
(* The file system *)

Entries == {"main", "create_zip_archive", "validate_model_file",
            "create_model_metadata", "download_model_zip"}

MainModelPath == "fin_disease.pth"
MainZipName == "fin_disease.zip"

ModelPaths == {MainModelPath, "models/net.v2.pth", "run.1/model", ".weights"}
ZipPaths == {MainZipName, "out/net.zip"}
AllPaths == ModelPaths \cup ZipPaths \cup {MetadataPath(p) : p \in ModelPaths}

\* sizes in bytes; 131072 and 393216 are the ties of the two-decimal format
ModelSizes == {0, 1, 1550, 5243, 131072, 393216}
                  \cup {k * BytesPerMB : k \in 1..MaxModelMB}
ArchiveSizes == {182, 524288}

\* st_ctime as printed by the f-string, per kind of file
OldTime == "1730800000.5"
NowTime == "1730884391.25"

NoFile == [exists |-> FALSE, size |-> 0, ctime |-> "", lines |-> <<>>, members |-> {}]
Blob(n) == [exists |-> TRUE, size |-> n, ctime |-> OldTime, lines |-> <<>>, members |-> {}]

RECURSIVE TextSize(_)
TextSize(ls) == IF ls = <<>> THEN 0 ELSE Len(Head(ls)) + 1 + TextSize(Tail(ls))

Text(ls, t) == [exists |-> TRUE, size |-> TextSize(ls), ctime |-> t, lines |-> ls, members |-> {}]
Archive(n, ms, t) == [exists |-> TRUE, size |-> n, ctime |-> t, lines |-> <<>>, members |-> ms]

-----------------------------------------------------------------------------
(* The functions of model_download.py *)

get_file_size_mb(f, p) ==
    IF f[p].exists THEN Fixed2(f[p].size) \o " MB" ELSE "Unknown"

\* faulty variants of validate_model_file: no size check; error line without the name
validate_model_file_anysize(f, p) ==
    IF ~f[p].exists
    THEN [ret |-> False, msg |-> "Error: Model file '" \o p \o "' not found"]
    ELSE [ret |-> True,
          msg |-> "Model file validated: " \o p \o " (" \o get_file_size_mb(f, p) \o ")"]
validate_model_file_noname(f, p) ==
    IF ~f[p].exists
    THEN [ret |-> False, msg |-> "Error: Model file not found"]
    ELSE IF f[p].size = 0
    THEN [ret |-> False, msg |-> "Error: Model file '" \o p \o "' is empty"]
    ELSE [ret |-> True,
          msg |-> "Model file validated: " \o p \o " (" \o get_file_size_mb(f, p) \o ")"]
validate_model_file(f, p) ==
    IF ~f[p].exists
    THEN [ret |-> False, msg |-> "Error: Model file '" \o p \o "' not found"]
    ELSE IF f[p].size = 0
    THEN [ret |-> False, msg |-> "Error: Model file '" \o p \o "' is empty"]
    ELSE [ret |-> True,
          msg |-> "Model file validated: " \o p \o " (" \o get_file_size_mb(f, p) \o ")"]

\* the template of lines 56-62, given its three interpolated values
MetadataLines(name, size, created) ==
    << "Model Information",
       "==================",
       "Model file: " \o name,
       "File size: " \o size,
       "Created: " \o created,
       "Description: Fine-tuned disease classification model" >>

\* metadata_content (lines 56-62) for an existing model file
metadata_content(f, p) ==
    MetadataLines(Basename(p), get_file_size_mb(f, p), f[p].ctime)

\* lines 87-89
\* faulty variants of zip_command_of: metadata path always named; named whenever
\* a metadata file lies on disk; never named
zip_command_always_meta(f, zn, mp, meta) ==
    "zip -r " \o zn \o " " \o mp \o " " \o MetadataPath(mp)
zip_command_stale_meta(f, zn, mp, meta) ==
    "zip -r " \o zn \o " " \o mp
        \o (IF f[MetadataPath(mp)].exists THEN " " \o MetadataPath(mp) ELSE "")
zip_command_no_meta(f, zn, mp, meta) ==
    "zip -r " \o zn \o " " \o mp
zip_command_of(f, zn, mp, meta) ==
    "zip -r " \o zn \o " " \o mp
        \o (IF meta # None /\ meta # "" /\ f[meta].exists THEN " " \o meta ELSE "")

\* os.system's wait status: exit code n is reported as n * 256
ZipStatuses == {0, 3072, 32512}

\* line 94
\* faulty variants of zip_failed: status ignored; only exit code 1 counts
zip_failed_never(st) == FALSE
zip_failed_one(st) == st = 256
zip_failed(st) == st # 0

\* the external zip -r: an archive that exists is updated, and every named
\* input that exists is added to it
ZipWrites(f, cmd, n) ==
    LET w == Words(cmd)
        archive == w[3]
        inputs == {w[i] : i \in 4..Len(w)}
    IN  [f EXCEPT ![archive] =
            Archive(n, f[archive].members \cup {i \in inputs : f[i].exists}, NowTime)]

\* what the process was asked to run is main(), or a function called on its own
IsMain == entry = "main"
Direct == entry # "main"

-----------------------------------------------------------------------------
(* Initial states: the call, and the file system the process starts in *)

\* a metadata file and an archive left behind by an earlier run
StaleMetadata(p) == Text(MetadataLines(Basename(p), "0.50 MB", OldTime), OldTime)
StaleArchives(p) ==
    { Archive(182, {p}, OldTime), Archive(182, {p, MetadataPath(p)}, OldTime) }

Init ==
    /\ entry \in Entries
    /\ IN_COLAB \in BOOLEAN
    /\ model_path \in
          CASE entry = "main" -> {MainModelPath}
            [] entry = "download_model_zip" -> {None}
            [] OTHER -> ModelPaths
    /\ zip_name \in
          CASE entry = "main" -> {MainZipName}
            [] entry \in {"create_zip_archive", "download_model_zip"} -> ZipPaths
            [] OTHER -> {None}
    /\ \E m \in {NoFile} \cup {Blob(n) : n \in ModelSizes},
          hasMeta \in BOOLEAN,
          z \in {NoFile} \cup StaleArchives(MainModelPath) :
          fs = [q \in AllPaths |->
                  IF q = model_path THEN m
                  ELSE IF model_path # None /\ q = MetadataPath(model_path) /\ hasMeta
                       THEN StaleMetadata(model_path)
                  ELSE IF q = zip_name THEN z
                  ELSE NoFile]
    /\ fs0 = fs
    /\ pc = "Start"
    /\ out = <<>>
    /\ valid_ret = Unset
    /\ metadata_path = None
    /\ zip_command = None
    /\ exit_code = <<>>
    /\ zip_ret = Unset
    /\ dl_ret = Unset
    /\ raised = None
    /\ exit_status = <<>>

-----------------------------------------------------------------------------
(* Steps *)

\* validate_model_file (lines 40-51), with what its callers do when it
\* returns False: create_zip_archive lines 77-81, main lines 131-137
Validate ==
    /\ pc = "Start"
    /\ entry \in {"main", "create_zip_archive", "validate_model_file"}
    /\ LET v == validate_model_file(fs, model_path)
           banner == IF IsMain THEN <<"Starting model download process...", Rule>>
                     ELSE <<>>
           zipping == IF entry = "validate_model_file" THEN <<>>
                      ELSE <<"Creating zip file...">>
           abort == IF IsMain /\ v.ret = False
                    THEN <<"Failed to create zip archive. Aborting.">> ELSE <<>>
       IN  /\ valid_ret' = v.ret
           /\ out' = out \o banner \o zipping \o <<v.msg>> \o abort
           /\ zip_ret' = IF v.ret = False /\ entry # "validate_model_file"
                         THEN False ELSE zip_ret
           /\ exit_status' = IF IsMain /\ v.ret = False THEN <<1>> ELSE exit_status
           /\ pc' = IF entry = "validate_model_file" THEN "Returned"
                    ELSE IF v.ret = True THEN "Validated"
                    ELSE IF IsMain THEN "Failed"
                    ELSE "Returned"
    /\ UNCHANGED <<entry, model_path, zip_name, IN_COLAB, fs0, fs, metadata_path,
                   zip_command, exit_code, dl_ret, raised>>

\* what open(metadata_path, 'w') and f.write can do
WriteOutcomes == {"written", "open fails", "write fails"}

\* create_model_metadata (lines 54-72), called at line 84 or on its own
WriteMetadata ==
    /\ \/ pc = "Validated"
       \/ pc = "Start" /\ entry = "create_model_metadata"
    /\ IF ~fs[model_path].exists
       THEN \* os.path.getctime raises outside the try block
            /\ raised' = "FileNotFoundError"
            /\ pc' = "Raised"
            /\ exit_status' = <<1>>
            /\ UNCHANGED <<fs, out, metadata_path>>
       ELSE \E outcome \in WriteOutcomes :
            LET mp == MetadataPath(model_path)
                content == metadata_content(fs, model_path)
            IN  /\ fs' = CASE outcome = "written" ->
                                [fs EXCEPT ![mp] = Text(content, NowTime)]
                           [] outcome = "write fails" ->
                                [fs EXCEPT ![mp] = Text(<<>>, NowTime)]
                           [] OTHER -> fs
                /\ out' = IF outcome = "written"
                          THEN Append(out, "Model metadata created: " \o mp)
                          ELSE Append(out, "Warning: Could not create metadata file: "
                                              \o outcome)
                /\ metadata_path' = IF outcome = "written" THEN mp ELSE None
                /\ pc' = IF entry = "create_model_metadata" THEN "Returned"
                         ELSE IF outcome = "written" THEN "MetadataWritten"
                         ELSE "MetadataSkipped"
                /\ UNCHANGED <<raised, exit_status>>
    /\ UNCHANGED <<entry, model_path, zip_name, IN_COLAB, fs0, valid_ret,
                   zip_command, exit_code, zip_ret, dl_ret>>

\* create_zip_archive lines 86-98, and main lines 135-137 when it returns False
RunZip ==
    /\ pc \in {"MetadataWritten", "MetadataSkipped"}
    /\ \E st \in ZipStatuses, wrote \in BOOLEAN, n \in ArchiveSizes :
         LET cmd == zip_command_of(fs, zip_name, model_path, metadata_path)
             bad == zip_failed(st)
         IN  /\ zip_command' = cmd
             /\ fs' = IF wrote THEN ZipWrites(fs, cmd, n) ELSE fs
             /\ exit_code' = <<st>>
             /\ zip_ret' = IF bad THEN False ELSE True
             /\ out' = out
                  \o (IF bad THEN <<"Error: Failed to create zip file (exit code: "
                                       \o IntStr(st) \o ")">> ELSE <<>>)
                  \o (IF bad /\ IsMain
                      THEN <<"Failed to create zip archive. Aborting.">> ELSE <<>>)
             /\ exit_status' = IF bad /\ IsMain THEN <<1>> ELSE exit_status
             /\ pc' = IF Direct THEN "Returned"
                      ELSE IF bad THEN "Failed" ELSE "Archived"
    /\ UNCHANGED <<entry, model_path, zip_name, IN_COLAB, fs0, valid_ret,
                   metadata_path, dl_ret, raised>>

\* download_model_zip (lines 101-123) on file system f: what it returns, what
\* it prints, and where it leaves the process; downloads is whether
\* files.download returns rather than raises
\* faulty variants of download_model_zip: no existence check; IN_COLAB test inverted
download_model_zip_unchecked(f, zp, colab, downloads) ==
    IF colab
    THEN [ret |-> IF downloads THEN True ELSE False,
          said |-> <<"Starting download...",
                     IF downloads THEN "Download initiated!"
                     ELSE "Error during download: failed">>,
          phase |-> IF downloads THEN "Transferred" ELSE "Failed"]
    ELSE [ret |-> True,
          said |-> <<"Simulating download (not in Colab environment)...",
                     "   File '" \o zp \o "' would be downloaded in Google Colab",
                     "Download simulation complete!">>,
          phase |-> "Simulated"]
download_model_zip_inverted(f, zp, colab, downloads) ==
    IF ~f[zp].exists
    THEN [ret |-> False,
          said |-> <<"Error: Zip file '" \o zp \o "' was not created">>,
          phase |-> "Failed"]
    ELSE IF ~colab
    THEN [ret |-> IF downloads THEN True ELSE False,
          said |-> <<"Model zipped successfully as " \o zp \o " ("
                        \o get_file_size_mb(f, zp) \o ")",
                     "Starting download...",
                     IF downloads THEN "Download initiated!"
                     ELSE "Error during download: failed">>,
          phase |-> IF downloads THEN "Transferred" ELSE "Failed"]
    ELSE [ret |-> True,
          said |-> <<"Model zipped successfully as " \o zp \o " ("
                        \o get_file_size_mb(f, zp) \o ")",
                     "Simulating download (not in Colab environment)...",
                     "   File '" \o zp \o "' would be downloaded in Google Colab",
                     "Download simulation complete!">>,
          phase |-> "Simulated"]
download_model_zip(f, zp, colab, downloads) ==
    IF ~f[zp].exists
    THEN [ret |-> False,
          said |-> <<"Error: Zip file '" \o zp \o "' was not created">>,
          phase |-> "Failed"]
    ELSE IF colab
    THEN [ret |-> IF downloads THEN True ELSE False,
          said |-> <<"Model zipped successfully as " \o zp \o " ("
                        \o get_file_size_mb(f, zp) \o ")",
                     "Starting download...",
                     IF downloads THEN "Download initiated!"
                     ELSE "Error during download: failed">>,
          phase |-> IF downloads THEN "Transferred" ELSE "Failed"]
    ELSE [ret |-> True,
          said |-> <<"Model zipped successfully as " \o zp \o " ("
                        \o get_file_size_mb(f, zp) \o ")",
                     "Simulating download (not in Colab environment)...",
                     "   File '" \o zp \o "' would be downloaded in Google Colab",
                     "Download simulation complete!">>,
          phase |-> "Simulated"]

\* a call of download_model_zip, at line 140 or on its own, and main lines
\* 140-142 when it returns False
Download ==
    /\ \/ pc = "Archived"
       \/ pc = "Start" /\ entry = "download_model_zip"
    /\ \E downloads \in BOOLEAN :
         LET d == download_model_zip(fs, zip_name, IN_COLAB, downloads)
         IN  /\ dl_ret' = d.ret
             /\ out' = out \o d.said
                  \o (IF d.ret = False /\ IsMain
                      THEN <<"Failed to download zip file. Aborting.">> ELSE <<>>)
             /\ exit_status' = IF d.ret = False /\ IsMain THEN <<1>> ELSE exit_status
             /\ pc' = IF Direct THEN "Returned"
                      ELSE IF d.ret = False THEN "Failed"
                      ELSE d.phase
    /\ UNCHANGED <<entry, model_path, zip_name, IN_COLAB, fs0, fs, valid_ret,
                   metadata_path, zip_command, exit_code, zip_ret, raised>>

\* main lines 144-145, and the interpreter's exit after main returned
Finish ==
    /\ pc \in {"Transferred", "Simulated"}
    /\ out' = out \o <<Rule, "Model download process completed successfully!">>
    /\ exit_status' = <<0>>
    /\ pc' = "Done"
    /\ UNCHANGED <<entry, model_path, zip_name, IN_COLAB, fs0, fs, valid_ret,
                   metadata_path, zip_command, exit_code, zip_ret, dl_ret, raised>>

Next == Validate \/ WriteMetadata \/ RunZip \/ Download \/ Finish

Spec == Init /\ [][Next]_vars

\* one synchronous process: every step that can be taken is taken
FairSpec == Spec /\ WF_vars(Next)

Terminated == pc \in {"Done", "Failed", "Returned", "Raised"}

TypeOK ==
    /\ entry \in Entries
    /\ pc \in {"Start", "Validated", "MetadataWritten", "MetadataSkipped",
               "Archived", "Transferred", "Simulated", "Done", "Failed",
               "Returned", "Raised"}
    /\ valid_ret \in {Unset, True, False}
    /\ zip_ret \in {Unset, True, False}
    /\ dl_ret \in {Unset, True, False}
    /\ exit_status \in {<<>>, <<0>>, <<1>>}
    /\ DOMAIN fs = AllPaths

-----------------------------------------------------------------------------
(* Vocabulary of the properties *)

Said(m) == \E i \in DOMAIN out : out[i] = m
SaidPart(m) == \E i \in DOMAIN out : Contains(out[i], m)

Pipeline == entry \in {"main", "create_zip_archive"}

Exited == exit_status # <<>>
ZipExecuted == exit_code # <<>>
TransferCalled == dl_ret # Unset

InputMissing == ~fs0[model_path].exists
InputEmpty == fs0[model_path].exists /\ fs0[model_path].size = 0
InputValid == fs0[model_path].exists /\ fs0[model_path].size > 0

SimulatedMsg == "Simulating download (not in Colab environment)..."
DownloadErrorMsg == "Error during download: failed"
AbortZipMsg == "Failed to create zip archive. Aborting."

\* the words the zip command was given after "zip -r <archive>"
ZipInputs(cmd) == LET w == Words(cmd) IN {w[i] : i \in 4..Len(w)}

-----------------------------------------------------------------------------
(* C1 *)

\* C1: in a run of main() whose input file fin_disease.pth does not exist, the
\* zip command and the transfer step are never executed, the run leaves Start
\* only by failing, and once it has, the process has exited non-zero and has
\* printed the error line that names 'fin_disease.pth'.
C1_MissingInputFails ==
    (IsMain /\ InputMissing) =>
        /\ ~ZipExecuted /\ zip_command = None
        /\ ~TransferCalled
        /\ pc \in {"Start", "Failed"}
        /\ pc = "Start" => ENABLED Validate
        /\ pc = "Failed" =>
              /\ Exited /\ exit_status[1] # 0
              /\ Said("Error: Model file 'fin_disease.pth' not found")

C1_Witness == IsMain /\ InputMissing /\ pc = "Failed" /\ fs0[MainZipName].exists

-----------------------------------------------------------------------------
(* C2 *)

ArchiveHasBoth ==
    /\ fs[zip_name].exists
    /\ {model_path, MetadataPath(model_path)} \subseteq fs[zip_name].members

\* C2 as stated: every terminated run of main() on an existing, non-empty
\* input has produced an archive holding the model file and a metadata file
\* and has exited 0.
C2_Original ==
    (IsMain /\ InputValid /\ Terminated) =>
        /\ exit_status = <<0>>
        /\ ArchiveHasBoth

\* C2 amended: a terminated run of main() on an existing, non-empty input in
\* which the metadata file was written, the zip command exited 0 and wrote the
\* archive, and the platform download did not raise, has produced an archive
\* holding the model file and the metadata file and has exited 0; and a run
\* that has not terminated can take a step.
C2_ValidInputArchived ==
    (IsMain /\ InputValid) =>
        /\ ~Terminated => ENABLED Next
        /\ ( /\ Terminated
             /\ metadata_path # None
             /\ exit_code = <<0>>
             /\ fs[zip_name].ctime = NowTime
             /\ ~Said(DownloadErrorMsg) ) =>
                /\ pc = "Done"
                /\ exit_status = <<0>>
                /\ ArchiveHasBoth
                /\ fs[MetadataPath(model_path)].lines = metadata_content(fs0, model_path)

C2_Witness ==
    /\ IsMain /\ InputValid /\ pc = "Done" /\ metadata_path # None
    /\ ~fs0[zip_name].exists /\ ArchiveHasBoth

-----------------------------------------------------------------------------
(* C3 *)

\* C3: when the input model file exists with size zero, validation returns
\* False, nothing is written (no metadata file, no archive), the zip command
\* is never built or executed, create_zip_archive returns False and main()
\* exits non-zero.
C3_EmptyInputFails ==
    (entry \in {"main", "create_zip_archive", "validate_model_file"}
        /\ InputEmpty /\ pc # "Start") =>
        /\ valid_ret = False
        /\ fs = fs0
        /\ metadata_path = None
        /\ zip_command = None /\ ~ZipExecuted
        /\ ~TransferCalled
        /\ Pipeline => zip_ret = False
        /\ IsMain => pc = "Failed" /\ Exited /\ exit_status[1] # 0
        /\ Direct => pc = "Returned"

C3_Witness ==
    /\ IsMain /\ InputEmpty /\ pc = "Failed"
    /\ Said("Error: Model file 'fin_disease.pth' is empty")

-----------------------------------------------------------------------------
(* C4 *)

\* C4 as stated: outside the notebook every call of download_model_zip raises
\* nothing, prints the simulated-transfer line and returns True.
C4_Original ==
    (~IN_COLAB /\ TransferCalled) =>
        /\ raised = None
        /\ Said(SimulatedMsg)
        /\ dl_ret = True

\* C4 amended: outside the notebook every call of download_model_zip raises
\* nothing; when the archive file exists it prints the simulated-transfer
\* line and returns True, and when it does not exist it prints the error
\* line naming the archive, prints no simulated-transfer line and returns
\* False.
C4_SimulatedWhenArchiveExists ==
    (~IN_COLAB /\ TransferCalled) =>
        /\ raised = None
        /\ fs[zip_name].exists =>
              /\ dl_ret = True
              /\ Said(SimulatedMsg)
              /\ Said("Download simulation complete!")
        /\ ~fs[zip_name].exists =>
              /\ dl_ret = False
              /\ ~Said(SimulatedMsg)
              /\ Said("Error: Zip file '" \o zip_name \o "' was not created")

C4_Witness ==
    /\ ~IN_COLAB /\ entry = "download_model_zip" /\ dl_ret = True
    /\ zip_name = "out/net.zip" /\ Said(SimulatedMsg)

-----------------------------------------------------------------------------
(* C5 *)

\* a failure step has occurred: missing or empty input, non-zero exit status
\* of the zip command, archive missing at transfer time, or an exception from
\* the platform download function
FailureStep ==
    \/ pc # "Start" /\ ~InputValid
    \/ ZipExecuted /\ exit_code[1] # 0
    \/ TransferCalled /\ ~fs[zip_name].exists
    \/ Said(DownloadErrorMsg)

AllSucceeded == valid_ret = True /\ zip_ret = True /\ dl_ret = True

\* C5: main() exits with 0 or 1 only; it has exited 1 exactly when a failure
\* step has occurred, it exits 0 exactly when validation, archiving and
\* transfer all succeeded, and it raises nothing.
C5_ExitCode ==
    IsMain =>
        /\ exit_status \in {<<>>, <<0>>, <<1>>}
        /\ raised = None
        /\ exit_status = <<1>> <=> FailureStep
        /\ exit_status = <<1>> <=> pc = "Failed"
        /\ exit_status = <<0>> <=> pc = "Done"
        /\ exit_status = <<0>> => AllSucceeded
        /\ (AllSucceeded /\ ~Exited) => ENABLED Finish
        /\ AllSucceeded => ~FailureStep

C5_Witness ==
    /\ IsMain /\ exit_status = <<1>> /\ ZipExecuted /\ exit_code[1] = 3072
    /\ fs[zip_name].exists

-----------------------------------------------------------------------------
(* C6 *)

\* b is the last component of path p
IsLastComponent(b, p) ==
    /\ ~Contains(b, "/")
    /\ \/ p = b
       \/ EndsWith(p, "/" \o b)

\* C6: whenever create_model_metadata has written the metadata file of a
\* model path, the file's "Model file:" line carries exactly the last
\* component of that path and its "File size:" line carries a size string
\* ending in " MB", never "Unknown"; called on a missing model file it raises
\* and writes nothing.
C6_MetadataContent ==
    /\ metadata_path # None =>
          LET ls == fs[metadata_path].lines
              name == SubSeq(ls[3], Len("Model file: ") + 1, Len(ls[3]))
              size == SubSeq(ls[4], Len("File size: ") + 1, Len(ls[4]))
          IN  /\ Len(ls) = 6
              /\ SubSeq(ls[3], 1, Len("Model file: ")) = "Model file: "
              /\ IsLastComponent(name, model_path)
              /\ SubSeq(ls[4], 1, Len("File size: ")) = "File size: "
              /\ EndsWith(size, " MB")
              /\ size # "Unknown"
              /\ Len(size) > Len(" MB")
    /\ (entry = "create_model_metadata" /\ InputMissing /\ pc # "Start") =>
          /\ raised # None
          /\ fs = fs0
          /\ metadata_path = None

C6_Witness ==
    /\ entry = "create_model_metadata"
    /\ model_path = "models/net.v2.pth"
    /\ metadata_path = "models/net.v2_info.txt"
    /\ fs[metadata_path].lines[3] = "Model file: net.v2.pth"
    /\ fs[metadata_path].lines[4] = "File size: 0.38 MB"

-----------------------------------------------------------------------------
(* C7 *)

\* the transfer, real or simulated, is performed by this step
TransferPerformed ==
    /\ dl_ret = Unset
    /\ \/ Said("Starting download...")'
       \/ Said(SimulatedMsg)'
       \/ dl_ret' = True

C7_Step ==
    /\ (Pipeline /\ fs'[MetadataPath(model_path)] # fs[MetadataPath(model_path)]) =>
          /\ valid_ret = True
          /\ InputValid
    /\ (Pipeline /\ ~ZipExecuted /\ ZipExecuted') =>
          /\ valid_ret = True
          /\ \A i \in ZipInputs(zip_command') : fs[i].exists
          /\ ZipInputs(zip_command') =
                {model_path} \cup (IF metadata_path = None THEN {} ELSE {metadata_path})
    /\ TransferPerformed => fs[zip_name].exists

\* C7: in every run of the pipeline, a step writes the metadata file only
\* when validation has returned True; the step that executes the zip command
\* is taken only when validation has returned True, and every input file the
\* command names exists before the step (the model file, plus the metadata
\* file when it was attached); and a step performs the transfer, real or
\* simulated, only when the archive file exists.
C7_Precedence == [][C7_Step]_vars

C7_Witness ==
    /\ IsMain /\ dl_ret = True /\ ZipExecuted
    /\ metadata_path = None
    /\ fs0[MetadataPath(model_path)].exists
    /\ ZipInputs(zip_command) = {model_path}

-----------------------------------------------------------------------------
(* C8 *)

Rank(p) ==
    CASE p = "Start" -> 0
      [] p = "Validated" -> 1
      [] p \in {"MetadataWritten", "MetadataSkipped"} -> 2
      [] p = "Archived" -> 3
      [] p \in {"Transferred", "Simulated"} -> 4
      [] OTHER -> 5

\* the forward transitions of the state machine, failure exits apart
Forward ==
    { <<"Start", "Validated">>,
      <<"Validated", "MetadataWritten">>, <<"Validated", "MetadataSkipped">>,
      <<"MetadataWritten", "Archived">>, <<"MetadataSkipped", "Archived">>,
      <<"Archived", "Transferred">>, <<"Archived", "Simulated">>,
      <<"Transferred", "Done">>, <<"Simulated", "Done">> }

C8_StepFrom(failFrom) ==
    (IsMain /\ pc' # pc) =>
        /\ Rank(pc') > Rank(pc)
        /\ \/ <<pc, pc'>> \in Forward
           \/ pc' = "Failed" /\ pc \in failFrom
        /\ pc' = "Transferred" => IN_COLAB
        /\ pc' = "Simulated" => ~IN_COLAB

\* C8 as stated: the failure state is entered only from the validation
\* transition (out of Start) or the archiving transition (out of
\* MetadataWritten, or out of Validated's other successor when the metadata
\* file was not written).
C8_Original ==
    /\ [][C8_StepFrom({"Start", "MetadataWritten", "MetadataSkipped"})]_vars
    /\ IsMain => <>(pc \in {"Done", "Failed"})

\* C8 amended: every run of main() follows Start, Validated, MetadataWritten
\* (left out when the write fails), Archived, Transferred (in the notebook) or
\* Simulated (outside it), Done, never revisiting an earlier state; the
\* failure state is entered only from the validation transition, the
\* archiving transition or the transfer transition (out of Archived); and
\* every run terminates in Done or in the failure state.
C8_StateSequence ==
    /\ [][C8_StepFrom({"Start", "MetadataWritten", "MetadataSkipped", "Archived"})]_vars
    /\ IsMain => <>(pc \in {"Done", "Failed"})

C8_Witness ==
    /\ IsMain /\ pc = "Failed" /\ valid_ret = True /\ zip_ret = True
    /\ dl_ret = False

-----------------------------------------------------------------------------
(* C9 *)

WarningMsg == "Warning: Could not create metadata file"

\* C9: when the metadata file could not be written, create_model_metadata has
\* printed the warning and returned no path and raised nothing; the pipeline
\* is not stopped but goes on to the zip command, which is given the model
\* file alone, whatever metadata file lies on disk; and the run fails only
\* for a failure step of its own.
C9_MetadataFailureNonFatal ==
    /\ (Pipeline /\ valid_ret = True /\ pc \notin {"Start", "Validated"}
            /\ metadata_path = None) =>
          /\ SaidPart(WarningMsg)
          /\ raised = None
          /\ pc = "MetadataSkipped" => (~Exited /\ ENABLED RunZip)
          /\ ZipExecuted => Words(zip_command) = <<"zip", "-r", zip_name, model_path>>
          /\ (ZipExecuted /\ exit_code[1] = 0) => zip_ret = True
          /\ pc = "Failed" => FailureStep
    /\ (entry = "create_model_metadata" /\ pc = "Returned" /\ metadata_path = None) =>
          /\ SaidPart(WarningMsg)
          /\ raised = None

C9_Witness ==
    /\ IsMain /\ pc = "Done" /\ exit_status = <<0>>
    /\ metadata_path = None
    /\ fs0[MetadataPath(model_path)].exists
    /\ zip_command = "zip -r fin_disease.zip fin_disease.pth"

-----------------------------------------------------------------------------
(* C10 *)

\* C10: once the zip command has been executed (validation having passed),
\* create_zip_archive has returned True exactly when the command's exit
\* status is 0, whether or not the archive file exists; in main() a non-zero
\* status ends the run with exit code 1 and the transfer step is never
\* called.
C10_ExitStatusDecides ==
    /\ (Pipeline /\ ZipExecuted) =>
          /\ valid_ret = True
          /\ zip_ret = True <=> exit_code[1] = 0
          /\ zip_ret = False <=> exit_code[1] # 0
          /\ (IsMain /\ exit_code[1] # 0) =>
                /\ ~TransferCalled
                /\ exit_status = <<1>>
                /\ pc = "Failed"
                /\ Said(AbortZipMsg)
    /\ (Pipeline /\ valid_ret = True /\ zip_ret # Unset) => ZipExecuted

C10_Witness ==
    /\ entry = "create_zip_archive"
    /\ zip_ret = True /\ exit_code = <<0>>
    /\ ~fs[zip_name].exists

====
